---- MODULE Spec2Model ----
(***************************************************************************)
(* ArcQuiz (src/app.py): the quiz-session state machine of a Flask app.    *)
(*                                                                         *)
(* State: the question file (bank), the visitor's Flask session (a dict    *)
(* whose keys may be absent), the highscores table, and the last response. *)
(* The question file is JSON: its values carry their JSON type, so that    *)
(* the isinstance checks of load_questions can be modelled.                *)
(* One action per route handler.  random.shuffle is a nondeterministic     *)
(* choice of a permutation.  Strings that the code parses or normalises    *)
(* (form fields) are sequences of one-character strings, so that strip,    *)
(* upper and int are modelled by what they do.                             *)
(*                                                                         *)
(* Left out: timestamps (started_at, created_at), the flash queue kept in  *)
(* the session (the category of the flash is part of the response), the    *)
(* templates, and float rounding of percent (kept as an exact fraction).   *)
(***************************************************************************)
EXTENDS Integers, Sequences, FiniteSets, Bags, TLC

VARIABLES bank, session, db, db_sid, sid, resp, sq_pc, sq_in, sq_q, sq_out, ld, gr,
          cr, nvalid

vars == <<bank, session, db, db_sid, sid, resp, sq_pc, sq_in, sq_q, sq_out, ld, gr,
          cr, nvalid>>

(***************************************************************************)
(* Bounds                                                                  *)
(***************************************************************************)
\* the question file holds 0..MaxBank entries
MaxBank == 2
\* option orders explored per question when a session is built (see PermList)
NumPerms == 1
\* sessions built (by start or reset) in one behaviour
MaxBuilds == 2
\* entries of the question files given to load_questions alone
MaxEntries == 2
\* largest total given to grade_rank alone
MaxTotal == 10
\* valid submissions counted after the last question's
ExtraValid == 1
\* distinct option texts of the questions given to shuffle_question alone
NumTexts == 4

(***************************************************************************)
(* Program constants                                                       *)
(***************************************************************************)
DefaultAmount == 10
TopN == 20
NumOptions == 4

(***************************************************************************)
(* Python helpers: dicts, str.strip, str.upper, int()                      *)
(***************************************************************************)
EmptyDict == [k \in {} |-> 0]

dict_get(d, k, default) == IF k \in DOMAIN d THEN d[k] ELSE default

dict_set(d, k, v) == [x \in (DOMAIN d) \cup {k} |-> IF x = k THEN v ELSE d[x]]

dict_pop(d, k) == [x \in (DOMAIN d) \ {k} |-> d[x]]

Whitespace == {" ", "\t"}

RECURSIVE lstrip(_)
lstrip(s) ==
    IF s = <<>> THEN <<>>
    ELSE IF Head(s) \in Whitespace THEN lstrip(Tail(s)) ELSE s

RECURSIVE rstrip(_)
rstrip(s) ==
    IF s = <<>> THEN <<>>
    ELSE IF s[Len(s)] \in Whitespace THEN rstrip(SubSeq(s, 1, Len(s) - 1)) ELSE s

strip(s) == rstrip(lstrip(s))

LowerCase == <<"a", "b", "c", "d", "e", "o">>
UpperCase == <<"A", "B", "C", "D", "E", "O">>

upper_char(c) ==
    IF \E i \in 1..Len(LowerCase) : LowerCase[i] = c
    THEN UpperCase[CHOOSE i \in 1..Len(LowerCase) : LowerCase[i] = c]
    ELSE c

upper(s) == [i \in 1..Len(s) |-> upper_char(s[i])]

Digits == <<"0", "1", "2", "3", "4", "5", "6", "7", "8", "9">>

IsDigit(c) == \E i \in 1..Len(Digits) : Digits[i] = c

DigitVal(c) == (CHOOSE i \in 1..Len(Digits) : Digits[i] = c) - 1

\* digits, with single underscores allowed between two digits
RECURSIVE IsDigitRun(_)
IsDigitRun(s) ==
    IF s = <<>> THEN FALSE
    ELSE IF ~IsDigit(Head(s)) THEN FALSE
    ELSE IF Len(s) = 1 THEN TRUE
    ELSE IF s[2] = "_" THEN IsDigitRun(SubSeq(s, 3, Len(s)))
    ELSE IsDigitRun(Tail(s))

RECURSIVE DigitRunVal(_, _)
DigitRunVal(s, acc) ==
    IF s = <<>> THEN acc
    ELSE IF Head(s) = "_" THEN DigitRunVal(Tail(s), acc)
    ELSE DigitRunVal(Tail(s), acc * 10 + DigitVal(Head(s)))

\* int(value) for a str: ok = FALSE stands for ValueError
int(value) ==
    LET t == strip(value)
        signed == t # <<>> /\ Head(t) \in {"+", "-"}
        body == IF signed THEN Tail(t) ELSE t
    IN  IF IsDigitRun(body)
        THEN [ok |-> TRUE,
              val |-> IF signed /\ Head(t) = "-" THEN 0 - DigitRunVal(body, 0)
                      ELSE DigitRunVal(body, 0)]
        ELSE [ok |-> FALSE, val |-> 0]

max(a, b) == IF a >= b THEN a ELSE b
min(a, b) == IF a <= b THEN a ELSE b

RECURSIVE gcd(_, _)
gcd(a, b) == IF b = 0 THEN a ELSE gcd(b, a % b)

\* a fraction in lowest terms stands for the float
Fraction(n, d) == LET g == gcd(n, d) IN IF g = 0 THEN <<0, 1>> ELSE <<n \div g, d \div g>>

(***************************************************************************)
(* Question bank                                                           *)
(***************************************************************************)
\* a JSON value of the question file: its type t and, by type, the number n
\* (a bool is 0 or 1), the text x, the list l or the object d
J(t, n, x, l, d) == [t |-> t, n |-> n, x |-> x, l |-> l, d |-> d]

NoText == <<"", 0>>

J_int(n) == J("int", n, NoText, <<>>, EmptyDict)
J_bool(n) == J("bool", n, NoText, <<>>, EmptyDict)
J_float(n) == J("float", n, NoText, <<>>, EmptyDict)
J_str(x) == J("str", 0, x, <<>>, EmptyDict)
J_list(l) == J("list", 0, NoText, l, EmptyDict)
J_dict(d) == J("dict", 0, NoText, <<>>, d)
J_null == J("null", 0, NoText, <<>>, EmptyDict)

\* the Python value json.load makes of a JSON value
py(j) ==
    CASE j.t \in {"int", "bool", "float"} -> j.n
      [] j.t = "str" -> j.x
      [] j.t = "list" -> j.l
      [] j.t = "dict" -> j.d
      [] OTHER -> NoText

\* isinstance(x, list); isinstance(x, int), which holds of a bool as well
is_list(j) == j.t = "list"
is_int(j) == j.t \in {"int", "bool"}

\* len(x): of a list, a str (two placeholders stand for its characters) or a dict
py_len(j) ==
    CASE j.t = "list" -> Len(j.l)
      [] j.t = "str" -> Len(j.x)
      [] OTHER -> Cardinality(DOMAIN j.d)

RequiredKeys == {"id", "question", "options", "answer_index", "explanation"}

\* the first check of the loop body that an entry fails, "" when it passes
entry_error(e) ==
    IF e.t # "dict" THEN "AttributeError"
    ELSE IF ~(RequiredKeys \subseteq DOMAIN e.d) THEN "ValueError: missing"
    ELSE IF ~is_list(e.d["options"]) \/ py_len(e.d["options"]) # NumOptions
    THEN "ValueError: options"
    ELSE IF \/ ~is_int(e.d["answer_index"])
            \/ e.d["answer_index"].n < 0
            \/ e.d["answer_index"].n > 3
    THEN "ValueError: answer_index"
    ELSE ""

\* the dict json.load makes of an entry
py_entry(e) == [k \in DOMAIN e.d |-> py(e.d[k])]

load_questions_skip_invalid(file) ==
    IF ~file.exists THEN [ok |-> FALSE, err |-> "FileNotFoundError", data |-> <<>>]
    ELSE LET good == SelectSeq(file.entries, LAMBDA e : entry_error(e) = "")
         IN  [ok |-> TRUE, err |-> "", data |-> [i \in 1..Len(good) |-> py_entry(good[i])]]

\* load_questions: ok = FALSE stands for the exception, named in err
load_questions(file) ==
    IF ~file.exists THEN [ok |-> FALSE, err |-> "FileNotFoundError", data |-> <<>>]
    ELSE LET data == file.entries
             bad == {i \in 1..Len(data) : entry_error(data[i]) # ""}
         IN  IF bad = {}
             THEN [ok |-> TRUE, err |-> "",
                   data |-> [i \in 1..Len(data) |-> py_entry(data[i])]]
             ELSE LET first == CHOOSE i \in bad : \A j \in bad : i <= j
                  IN  [ok |-> FALSE, err |-> entry_error(data[first]), data |-> <<>>]

\* question_count: any exception of load_questions gives 0
question_count(file) ==
    LET r == load_questions(file) IN IF r.ok THEN Len(r.data) ELSE 0

\* the permutations of 0..3 as the order in which random.shuffle leaves the
\* enumerated options: position i holds the option of old index p[i]
Perms4 == {p \in [1..NumOptions -> 0..(NumOptions - 1)] :
              \A i, j \in 1..NumOptions : i # j => p[i] # p[j]}

shuffle_question_keep_index(q, p) ==
    [shuffled |-> [q EXCEPT !["options"] =
                       [i \in 1..NumOptions |-> q["options"][p[i] + 1]]],
     q |-> q]

\* shuffled: the returned copy; q: the argument as the call leaves it
shuffle_question(q, p) ==
    LET options == q["options"]
        correct_idx == q["answer_index"]
        new_options == [i \in 1..NumOptions |-> options[p[i] + 1]]
        new_correct_idx == (CHOOSE i \in 1..NumOptions : p[i] = correct_idx) - 1
    IN  [shuffled |-> [q EXCEPT !["options"] = new_options,
                                !["answer_index"] = new_correct_idx],
         q |-> q]

clamp_int_default_out_of_range(value, default, min_v, max_v) ==
    LET x == int(value)
    IN  IF x.ok /\ x.val >= min_v /\ x.val <= max_v THEN x.val ELSE default

clamp_int(value, default, min_v, max_v) ==
    LET x == int(value)
    IN  IF x.ok THEN max(min_v, min(max_v, x.val)) ELSE default

\* the orders random.shuffle can leave a list of n items in
Orders(n) == {o \in [1..n -> 1..n] : \A i, j \in 1..n : i # j => o[i] # o[j]}

build_amount(amount, available) == max(1, min(amount, available))

\* order: the shuffled bank; perms[i]: the option shuffle of the i-th selected
build_quiz_session_keep_flag(s, data, amount, order, perms) ==
    LET loaded == load_questions(data).data
        questions == [i \in 1..Len(loaded) |-> loaded[order[i]]]
        n == build_amount(amount, Len(questions))
        selected == SubSeq(questions, 1, n)
        prepared == [i \in 1..n |-> shuffle_question(selected[i], perms[i]).shuffled]
    IN  dict_set(dict_set(s, "quiz",
                          [questions |-> prepared, idx |-> 0, score |-> 0,
                           answers |-> <<>>]),
                 "score_saved", dict_get(s, "score_saved", FALSE))

build_quiz_session_with_replacement(s, data, amount, order, perms) ==
    LET loaded == load_questions(data).data
        questions == [i \in 1..Len(loaded) |-> loaded[order[1]]]
        n == build_amount(amount, Len(questions))
        selected == SubSeq(questions, 1, n)
        prepared == [i \in 1..n |-> shuffle_question(selected[i], perms[i]).shuffled]
    IN  dict_set(dict_set(s, "quiz",
                          [questions |-> prepared, idx |-> 0, score |-> 0,
                           answers |-> <<>>]),
                 "score_saved", FALSE)

build_quiz_session(s, data, amount, order, perms) ==
    LET loaded == load_questions(data).data
        questions == [i \in 1..Len(loaded) |-> loaded[order[i]]]
        available == Len(questions)
        n == build_amount(amount, available)
        selected == SubSeq(questions, 1, n)
        prepared == [i \in 1..n |-> shuffle_question(selected[i], perms[i]).shuffled]
    IN  dict_set(dict_set(s, "quiz",
                          [questions |-> prepared, idx |-> 0, score |-> 0,
                           answers |-> <<>>]),
                 "score_saved", FALSE)

current_quiz(s) ==
    LET quiz == dict_get(s, "quiz", EmptyDict)
    IN  IF quiz = EmptyDict \/ "questions" \notin DOMAIN quiz THEN EmptyDict ELSE quiz

\* the title of the band.  pct = score / total is compared as a fraction: the
\* float comparisons agree with it for every total below 10^15
grade_rank_strict(score, total) ==
    IF total <= 0 THEN "Resultado indisponivel"
    ELSE IF score = total THEN "Excelente"
    ELSE IF 10 * score > 8 * total THEN "Muito bom"
    ELSE IF 10 * score >= 6 * total THEN "Bom"
    ELSE IF 10 * score >= 4 * total THEN "Regular"
    ELSE "Iniciante"

grade_rank(score, total) ==
    IF total <= 0 THEN "Resultado indisponivel"
    ELSE IF score = total THEN "Excelente"
    ELSE IF 10 * score >= 8 * total THEN "Muito bom"
    ELSE IF 10 * score >= 6 * total THEN "Bom"
    ELSE IF 10 * score >= 4 * total THEN "Regular"
    ELSE "Iniciante"

\* percent = (score / total * 100.0) if total else 0.0
percent_of(score, total) ==
    IF total # 0 THEN Fraction(score * 100, total) ELSE <<0, 1>>

Letters == << <<"A">>, <<"B">>, <<"C">>, <<"D">> >>

LetterSet == {Letters[i] : i \in 1..Len(Letters)}

PlayerDefault == <<"P", "l", "a", "y", "e", "r">>

(***************************************************************************)
(* Responses                                                               *)
(***************************************************************************)
Redirect(op, to, flash) ==
    [op |-> op, kind |-> "redirect", to |-> to, flash |-> flash, ctx |-> EmptyDict]

Render(op, page, flash, ctx) ==
    [op |-> op, kind |-> "render", to |-> page, flash |-> flash, ctx |-> ctx]

\* an uncaught exception: the framework answers 500
ServerError(op) ==
    [op |-> op, kind |-> "error", to |-> "500", flash |-> "none", ctx |-> EmptyDict]

NoResponse ==
    [op |-> "none", kind |-> "none", to |-> "none", flash |-> "none", ctx |-> EmptyDict]

(***************************************************************************)
(* Route handlers: each returns the session, the table and the response    *)
(***************************************************************************)
Out(s, d, r) == [session |-> s, db |-> d, resp |-> r]

index(s, d, data) ==
    Out(s, d, Render("index", "index", "none", [available |-> question_count(data)]))

start(s, d, data, form, order, perms) ==
    LET available == question_count(data)
        stripped == strip(dict_get(form, "name", <<>>))
        name == IF stripped # <<>> THEN stripped ELSE PlayerDefault
        requested_raw == dict_get(form, "amount", <<>>)
        default_amount == min(DefaultAmount, available)
        requested == clamp_int(requested_raw, default_amount, 1, available)
        raw_int == int(requested_raw)
        flash == IF raw_int.ok /\ raw_int.val > available THEN "warning" ELSE "none"
        s1 == dict_set(dict_set(s, "player_name", name), "amount", requested)
    IN  IF available <= 0
        THEN Out(s, d, Redirect("start", "index", "error"))
        ELSE Out(build_quiz_session(s1, data, requested, order, perms), d,
                 Redirect("start", "quiz", flash))

quiz_skips_question(s, d) ==
    LET quiz_state == current_quiz(s)
    IN  IF quiz_state = EmptyDict
        THEN Out(s, d, Redirect("quiz", "index", "warning"))
        ELSE IF quiz_state["idx"] >= Len(quiz_state["questions"])
        THEN Out(s, d, Redirect("quiz", "result", "none"))
        ELSE Out(dict_set(s, "quiz", [quiz_state EXCEPT !["idx"] = @ + 1]), d,
                 Render("quiz", "quiz", "none", EmptyDict))

quiz(s, d) ==
    LET quiz_state == current_quiz(s)
    IN  IF quiz_state = EmptyDict
        THEN Out(s, d, Redirect("quiz", "index", "warning"))
        ELSE LET idx == quiz_state["idx"]
                 questions == quiz_state["questions"]
                 total == Len(questions)
             IN  IF idx >= total
                 THEN Out(s, d, Redirect("quiz", "result", "none"))
                 ELSE LET q == questions[idx + 1]
                      IN  Out(s, d, Render("quiz", "quiz", "none",
                                  [name |-> dict_get(s, "player_name", PlayerDefault),
                                   idx |-> idx, total |-> total,
                                   question |-> q["question"], qid |-> q["id"],
                                   options |-> [i \in 1..NumOptions |->
                                                   <<Letters[i], q["options"][i]>>]]))

\* the log entry appended for the current question
answer_record_inverted(q, chosen) ==
    LET correct_letter == Letters[q["answer_index"] + 1]
    IN  [id |-> q["id"], question |-> q["question"], chosen |-> chosen,
         correct |-> correct_letter, is_correct |-> (chosen # correct_letter),
         explanation |-> q["explanation"]]

answer_record(q, chosen) ==
    LET correct_letter == Letters[q["answer_index"] + 1]
        is_correct == (chosen = correct_letter)
    IN  [id |-> q["id"], question |-> q["question"], chosen |-> chosen,
         correct |-> correct_letter, is_correct |-> is_correct,
         explanation |-> q["explanation"]]

record_answer_no_append(s, d, quiz_state, chosen) ==
    LET q == quiz_state["questions"][quiz_state["idx"] + 1]
        rec == answer_record(q, chosen)
    IN  Out(dict_set(s, "quiz",
                     [quiz_state EXCEPT
                         !["score"] = IF rec.is_correct THEN @ + 1 ELSE @,
                         !["answers"] = IF rec.is_correct THEN Append(@, rec) ELSE @,
                         !["idx"] = @ + 1]),
            d, Redirect("answer", "quiz", "none"))

record_answer_always_score(s, d, quiz_state, chosen) ==
    LET q == quiz_state["questions"][quiz_state["idx"] + 1]
        rec == answer_record(q, chosen)
    IN  Out(dict_set(s, "quiz",
                     [quiz_state EXCEPT
                         !["score"] = @ + 1,
                         !["answers"] = Append(@, rec),
                         !["idx"] = @ + 1]),
            d, Redirect("answer", "quiz", "none"))

record_answer_replace_log(s, d, quiz_state, chosen) ==
    LET q == quiz_state["questions"][quiz_state["idx"] + 1]
        rec == answer_record(q, chosen)
    IN  Out(dict_set(s, "quiz",
                     [quiz_state EXCEPT
                         !["score"] = IF rec.is_correct THEN @ + 1 ELSE @,
                         !["answers"] = [i \in 1..(Len(@) + 1) |-> rec],
                         !["idx"] = @ + 1]),
            d, Redirect("answer", "quiz", "none"))

record_answer_first_question(s, d, quiz_state, chosen) ==
    LET q == quiz_state["questions"][1]
        rec == answer_record(q, chosen)
    IN  Out(dict_set(s, "quiz",
                     [quiz_state EXCEPT
                         !["score"] = IF rec.is_correct THEN @ + 1 ELSE @,
                         !["answers"] = Append(@, rec),
                         !["idx"] = @ + 1]),
            d, Redirect("answer", "quiz", "none"))

record_answer_stay_when_wrong(s, d, quiz_state, chosen) ==
    LET q == quiz_state["questions"][quiz_state["idx"] + 1]
        rec == answer_record(q, chosen)
    IN  IF rec.is_correct
        THEN Out(dict_set(s, "quiz",
                          [quiz_state EXCEPT
                              !["score"] = @ + 1,
                              !["answers"] = Append(@, rec),
                              !["idx"] = @ + 1]),
                 d, Redirect("answer", "quiz", "none"))
        ELSE Out(s, d, Redirect("answer", "quiz", "none"))

\* the valid-letter branch of answer; indexing past the end of a list raises
record_answer(s, d, quiz_state, chosen) ==
    LET idx == quiz_state["idx"]
        questions == quiz_state["questions"]
    IN  IF idx + 1 \notin DOMAIN questions
        THEN Out(s, d, ServerError("answer"))
        ELSE LET q == questions[idx + 1]
             IN  IF q["answer_index"] + 1 \notin DOMAIN Letters
                 THEN Out(s, d, ServerError("answer"))
                 ELSE LET rec == answer_record(q, chosen)
                          new_state == [quiz_state EXCEPT
                                           !["score"] = IF rec.is_correct
                                                        THEN @ + 1 ELSE @,
                                           !["answers"] = Append(@, rec),
                                           !["idx"] = @ + 1]
                      IN  Out(dict_set(s, "quiz", new_state), d,
                              Redirect("answer", "quiz", "none"))

\* (request.form.get("choice") or "").strip().upper()
chosen_of(form) == upper(strip(dict_get(form, "choice", <<>>)))

answer_no_terminal_guard(s, d, form) ==
    LET quiz_state == current_quiz(s)
        chosen == chosen_of(form)
    IN  IF quiz_state = EmptyDict
        THEN Out(s, d, Redirect("answer", "index", "warning"))
        ELSE IF chosen \notin LetterSet
        THEN Out(s, d, Redirect("answer", "quiz", "error"))
        ELSE record_answer(s, d, quiz_state, chosen)

answer_advance_on_invalid(s, d, form) ==
    LET quiz_state == current_quiz(s)
        chosen == chosen_of(form)
    IN  IF quiz_state = EmptyDict
        THEN Out(s, d, Redirect("answer", "index", "warning"))
        ELSE IF quiz_state["idx"] >= Len(quiz_state["questions"])
        THEN Out(s, d, Redirect("answer", "result", "none"))
        ELSE IF chosen \notin LetterSet
        THEN Out(dict_set(s, "quiz", [quiz_state EXCEPT !["idx"] = @ + 1]), d,
                 Redirect("answer", "quiz", "error"))
        ELSE record_answer(s, d, quiz_state, chosen)

answer(s, d, form) ==
    LET quiz_state == current_quiz(s)
    IN  IF quiz_state = EmptyDict
        THEN Out(s, d, Redirect("answer", "index", "warning"))
        ELSE LET idx == quiz_state["idx"]
                 questions == quiz_state["questions"]
                 total == Len(questions)
                 chosen == chosen_of(form)
             IN  IF idx >= total
                 THEN Out(s, d, Redirect("answer", "result", "none"))
                 ELSE IF chosen \notin LetterSet
                 THEN Out(s, d, Redirect("answer", "quiz", "error"))
                 ELSE record_answer(s, d, quiz_state, chosen)

result_no_flag(s, d) ==
    LET quiz_state == current_quiz(s)
    IN  IF quiz_state = EmptyDict
        THEN Out(s, d, Redirect("result", "index", "warning"))
        ELSE LET name == dict_get(s, "player_name", PlayerDefault)
                 score == dict_get(quiz_state, "score", 0)
                 total == Len(dict_get(quiz_state, "questions", <<>>))
                 percent == percent_of(score, total)
                 row == [name |-> name, score |-> score, total |-> total,
                         percent |-> percent]
                 ctx == [name |-> name, score |-> score, total |-> total,
                         percent |-> percent, rank |-> grade_rank(score, total),
                         answers |-> dict_get(quiz_state, "answers", <<>>)]
             IN  Out(s, Append(d, row), Render("result", "result", "none", ctx))

result(s, d) ==
    LET quiz_state == current_quiz(s)
    IN  IF quiz_state = EmptyDict
        THEN Out(s, d, Redirect("result", "index", "warning"))
        ELSE LET name == dict_get(s, "player_name", PlayerDefault)
                 score == dict_get(quiz_state, "score", 0)
                 total == Len(dict_get(quiz_state, "questions", <<>>))
                 percent == percent_of(score, total)
                 rank == grade_rank(score, total)
                 row == [name |-> name, score |-> score, total |-> total,
                         percent |-> percent]
                 saved == dict_get(s, "score_saved", FALSE)
                 ctx == [name |-> name, score |-> score, total |-> total,
                         percent |-> percent, rank |-> rank,
                         answers |-> dict_get(quiz_state, "answers", <<>>)]
             IN  IF ~saved
                 THEN Out(dict_set(s, "score_saved", TRUE), Append(d, row),
                          Render("result", "result", "none", ctx))
                 ELSE Out(s, d, Render("result", "result", "none", ctx))

reset(s, d, data, order, perms) ==
    LET available == question_count(data)
        remembered == dict_get(s, "amount", min(DefaultAmount, available))
        amount == max(1, min(remembered, available))
    IN  IF available <= 0
        THEN Out(dict_set(dict_pop(s, "quiz"), "score_saved", FALSE), d,
                 Redirect("reset", "index", "error"))
        ELSE Out(build_quiz_session(s, data, amount, order, perms), d,
                 Redirect("reset", "quiz", "success"))

\* ORDER BY percent DESC, score DESC, created_at DESC; a later row is more recent
row_before(d, i, j) ==
    LET a == d[i]
        b == d[j]
        pa == a.percent[1] * b.percent[2]
        pb == b.percent[1] * a.percent[2]
    IN  \/ pa > pb
        \/ pa = pb /\ a.score > b.score
        \/ pa = pb /\ a.score = b.score /\ i > j

RECURSIVE order_rows(_, _)
order_rows(d, S) ==
    IF S = {} THEN <<>>
    ELSE LET first == CHOOSE i \in S : \A j \in S \ {i} : row_before(d, i, j)
         IN  <<d[first]>> \o order_rows(d, S \ {first})

highscores(s, d) ==
    LET rows == order_rows(d, 1..Len(d))
        items == SubSeq(rows, 1, min(TopN, Len(rows)))
    IN  Out(s, d, Render("highscores", "highscores", "none", [items |-> items]))

(***************************************************************************)
(* Inputs                                                                  *)
(***************************************************************************)
\* the question file: n well-formed entries; even ids repeat an option text
OptionText(i, j) == IF i % 2 = 0 /\ j = 3 THEN <<"opt", i, 0>> ELSE <<"opt", i, j>>

BankQuestion(i) ==
    [id |-> i, question |-> <<"question", i>>,
     options |-> [j \in 1..NumOptions |-> OptionText(i, j - 1)],
     answer_index |-> (i + 1) % 4, explanation |-> <<"explanation", i>>]

\* the JSON entry that loads as q
json_entry(q) ==
    J_dict([k \in DOMAIN q |->
               CASE k = "options" -> J_list(q[k])
                 [] k \in {"id", "answer_index"} -> J_int(q[k])
                 [] OTHER -> J_str(q[k])])

BankOfSize(n) == [exists |-> TRUE, entries |-> [i \in 1..n |-> json_entry(BankQuestion(i))]]

\* the option orders explored for a session: the first NumPerms of these
PermList ==
    << <<3, 2, 1, 0>>, <<1, 0, 3, 2>>, <<1, 3, 2, 0>>, <<2, 1, 3, 0>>,
       <<0, 1, 2, 3>>, <<2, 0, 1, 3>> >>

ShufflePerms == {PermList[i] : i \in 1..min(NumPerms, Len(PermList))}

AmountInputs ==
    {<<"a", "b">>, <<"0">>, <<"-", "1">>, <<"1">>, <<" ", "2", " ">>, <<"+", "3">>,
     <<"4">>, <<"1", "_", "0">>, <<"2", ".", "5">>}

StartForms ==
    {EmptyDict, [name |-> <<" ", "b", "o", " ">>, amount |-> <<"2">>]}
    \cup {[amount |-> a] : a \in AmountInputs}

ChoiceInputs ==
    {<<>>, <<"A">>, <<"b">>, <<" ", "c", " ">>, <<"D", "\t">>, <<"e">>,
     <<"A", "B">>, <<"0">>}

AnswerForms == {EmptyDict} \cup {[choice |-> c] : c \in ChoiceInputs}

(***************************************************************************)
(* The state machine                                                       *)
(***************************************************************************)
\* load_questions and question_count called on their own: not in progress
LoadIdle == [pc |-> "idle", file |-> [exists |-> FALSE, entries |-> <<>>],
             out |-> EmptyDict, count |-> 0]

\* grade_rank called on its own: not in progress
GradeIdle == [pc |-> "idle", score |-> 0, total |-> 0, out |-> ""]

\* the result views handled concurrently: none in progress
Requests == {1, 2}

ConcIdle ==
    [r \in Requests |-> [pc |-> "idle", sess |-> EmptyDict, saved |-> FALSE,
                         modified |-> FALSE]]

\* the variables of the specifications of single functions and of concurrent
\* result views
Others == <<sq_pc, sq_in, sq_q, sq_out, ld, gr, cr>>

OthersIdle ==
    /\ sq_pc = "idle"
    /\ sq_in = EmptyDict
    /\ sq_q = EmptyDict
    /\ sq_out = EmptyDict
    /\ ld = LoadIdle
    /\ gr = GradeIdle
    /\ cr = ConcIdle

Frame == UNCHANGED <<bank, sq_pc, sq_in, sq_q, sq_out, ld, gr, cr, nvalid>>

\* db_sid and sid record which session each row was written for
Effect(r, built) ==
    /\ session' = r.session
    /\ db' = r.db
    /\ resp' = r.resp
    /\ sid' = IF built THEN sid + 1 ELSE sid
    /\ db_sid' = IF Len(r.db) > Len(db) THEN Append(db_sid, sid) ELSE db_sid

Apply(r, built) ==
    /\ Effect(r, built)
    /\ Frame

Init ==
    /\ bank \in {BankOfSize(n) : n \in 0..MaxBank}
    /\ session = EmptyDict
    /\ db = <<>>
    /\ db_sid = <<>>
    /\ sid = 0
    /\ resp = NoResponse
    /\ OthersIdle
    /\ nvalid = 0

Index ==
    /\ LET r == index(session, db, bank)
       IN  Apply(r, FALSE)

Start ==
    /\ question_count(bank) > 0 => sid < MaxBuilds
    /\ \E form \in StartForms, order \in Orders(question_count(bank)),
          perms \in [1..question_count(bank) -> ShufflePerms] :
          LET r == start(session, db, bank, form, order, perms)
          IN  Apply(r, r.resp.to = "quiz")

Quiz ==
    /\ LET r == quiz(session, db)
       IN  Apply(r, FALSE)

Answer ==
    /\ \E form \in AnswerForms :
          LET r == answer(session, db, form)
          IN  Apply(r, FALSE)

Result ==
    /\ LET r == result(session, db)
       IN  Apply(r, FALSE)

Highscores ==
    /\ LET r == highscores(session, db)
       IN  Apply(r, FALSE)

Reset ==
    /\ question_count(bank) > 0 => sid < MaxBuilds
    /\ \E order \in Orders(question_count(bank)),
          perms \in [1..question_count(bank) -> ShufflePerms] :
          LET r == reset(session, db, bank, order, perms)
          IN  Apply(r, r.resp.to = "quiz")

Next == Index \/ Start \/ Quiz \/ Answer \/ Result \/ Highscores \/ Reset

Spec == Init /\ [][Next]_vars

(***************************************************************************)
(* shuffle_question on its own: every question over NumTexts option texts, *)
(* every outcome of random.shuffle                                         *)
(***************************************************************************)
ShuffleTexts == {<<"text", k>> : k \in 1..NumTexts}

ShuffleInputs ==
    {[id |-> 1, question |-> <<"question", 1>>, options |-> o, answer_index |-> a,
      explanation |-> <<"explanation", 1>>] :
        o \in [1..NumOptions -> ShuffleTexts], a \in 0..(NumOptions - 1)}

InitShuffle ==
    /\ bank = BankOfSize(0)
    /\ session = EmptyDict
    /\ db = <<>>
    /\ db_sid = <<>>
    /\ sid = 0
    /\ resp = NoResponse
    /\ sq_pc = "call"
    /\ sq_in \in ShuffleInputs
    /\ sq_q = sq_in
    /\ sq_out = EmptyDict
    /\ ld = LoadIdle
    /\ gr = GradeIdle
    /\ cr = ConcIdle
    /\ nvalid = 0

ShuffleCall ==
    /\ sq_pc = "call"
    /\ \E p \in Perms4 :
          LET r == shuffle_question(sq_q, p)
          IN  /\ sq_out' = r.shuffled
              /\ sq_q' = r.q
    /\ sq_pc' = "done"
    /\ UNCHANGED <<bank, session, db, db_sid, sid, resp, sq_in, ld, gr, cr, nvalid>>

NextShuffle == ShuffleCall

SpecShuffle == InitShuffle /\ [][NextShuffle]_vars

(***************************************************************************)
(* load_questions and question_count on their own: files of up to          *)
(* MaxEntries entries, well-formed or broken in one of the ways the loop    *)
(* checks, and the missing file                                            *)
(***************************************************************************)
without_key(e, k) == J_dict(dict_pop(e.d, k))

with_key(e, k, j) == J_dict(dict_set(e.d, k, j))

LoadEntryKinds ==
    LET e1 == json_entry(BankQuestion(1))
        e2 == json_entry(BankQuestion(2))
        opts == BankQuestion(1)["options"]
    IN  {e1, e2, with_key(e1, "level", J_str(<<"easy", 1>>)), J_int(7),
         without_key(with_key(e1, "options", J_list(<<>>)), "id")}
        \cup {without_key(e1, k) : k \in RequiredKeys}
        \cup {with_key(e1, "options", j) :
                 j \in {J_str(<<"abcd", 4>>), J_null, J_dict(e1.d),
                        J_list(SubSeq(opts, 1, 3)), J_list(opts \o <<opts[1]>>)}}
        \cup {with_key(e2, "answer_index", j) :
                 j \in {J_str(<<"1", 1>>), J_float(1), J_null, J_int(0 - 1),
                        J_int(4), J_bool(1), J_int(0)}}

LoadFiles ==
    {[exists |-> FALSE, entries |-> <<>>]} \cup
    {[exists |-> TRUE, entries |-> es] :
        es \in UNION {[1..n -> LoadEntryKinds] : n \in 0..MaxEntries}}

InitLoad ==
    /\ bank = BankOfSize(0)
    /\ session = EmptyDict
    /\ db = <<>>
    /\ db_sid = <<>>
    /\ sid = 0
    /\ resp = NoResponse
    /\ sq_pc = "idle"
    /\ sq_in = EmptyDict
    /\ sq_q = EmptyDict
    /\ sq_out = EmptyDict
    /\ ld \in {[pc |-> "call", file |-> f, out |-> EmptyDict, count |-> 0] : f \in LoadFiles}
    /\ gr = GradeIdle
    /\ cr = ConcIdle
    /\ nvalid = 0

LoadCall ==
    /\ ld.pc = "call"
    /\ ld' = [pc |-> "done", file |-> ld.file, out |-> load_questions(ld.file),
              count |-> question_count(ld.file)]
    /\ UNCHANGED <<bank, session, db, db_sid, sid, resp, sq_pc, sq_in, sq_q, sq_out, gr,
                   cr, nvalid>>

NextLoad == LoadCall

SpecLoad == InitLoad /\ [][NextLoad]_vars

(***************************************************************************)
(* grade_rank on its own: totals from -1 to MaxTotal, scores from 0 to one *)
(* more than MaxTotal                                                      *)
(***************************************************************************)
InitGrade ==
    /\ bank = BankOfSize(0)
    /\ session = EmptyDict
    /\ db = <<>>
    /\ db_sid = <<>>
    /\ sid = 0
    /\ resp = NoResponse
    /\ sq_pc = "idle"
    /\ sq_in = EmptyDict
    /\ sq_q = EmptyDict
    /\ sq_out = EmptyDict
    /\ ld = LoadIdle
    /\ gr \in {[pc |-> "call", score |-> s, total |-> t, out |-> ""] :
                  s \in 0..(MaxTotal + 1), t \in (0 - 1)..MaxTotal}
    /\ cr = ConcIdle
    /\ nvalid = 0

GradeCall ==
    /\ gr.pc = "call"
    /\ gr' = [gr EXCEPT !.pc = "done", !.out = grade_rank(gr.score, gr.total)]
    /\ UNCHANGED <<bank, session, db, db_sid, sid, resp, sq_pc, sq_in, sq_q, sq_out, ld,
                   cr, nvalid>>

NextGrade == GradeCall

SpecGrade == InitGrade /\ [][NextGrade]_vars

(***************************************************************************)
(* Two result views of one session handled concurrently.  The session is   *)
(* the signed cookie of the browser: each request opens its own copy of    *)
(* it, and the browser keeps the cookie of a response that modified it.    *)
(* The table is shared.                                                    *)
(***************************************************************************)
\* the sessions start builds for a first-time visitor
BuiltSessions(data) ==
    {start(EmptyDict, <<>>, data, form, order, perms).session :
        form \in StartForms, order \in Orders(question_count(data)),
        perms \in [1..question_count(data) -> ShufflePerms]}

InitConc ==
    /\ bank \in {BankOfSize(n) : n \in 1..MaxBank}
    /\ session \in BuiltSessions(bank)
    /\ db = <<>>
    /\ db_sid = <<>>
    /\ sid = 1
    /\ resp = NoResponse
    /\ sq_pc = "idle"
    /\ sq_in = EmptyDict
    /\ sq_q = EmptyDict
    /\ sq_out = EmptyDict
    /\ ld = LoadIdle
    /\ gr = GradeIdle
    /\ cr = ConcIdle
    /\ nvalid = 0

FrameConc == UNCHANGED <<bank, sq_pc, sq_in, sq_q, sq_out, ld, gr, nvalid>>

\* an answer handled while no result view is in progress
ConcAnswer ==
    /\ \A r \in Requests : cr[r].pc = "idle"
    /\ \E form \in AnswerForms :
          LET out == answer(session, db, form)
          IN  Effect(out, FALSE)
    /\ UNCHANGED cr
    /\ FrameConc

\* the request arrives with the cookie the browser holds
ResultOpen(r) ==
    /\ cr[r].pc = "idle"
    /\ cr' = [cr EXCEPT ![r] = [pc |-> "read", sess |-> session, saved |-> FALSE,
                                modified |-> FALSE]]
    /\ UNCHANGED <<session, db, db_sid, sid, resp>>
    /\ FrameConc

\* current_quiz() and session.get("score_saved", False)
ResultRead(r) ==
    /\ cr[r].pc = "read"
    /\ LET quiz_state == current_quiz(cr[r].sess)
           saved == dict_get(cr[r].sess, "score_saved", FALSE)
       IN  cr' = [cr EXCEPT ![r].saved = saved,
                            ![r].pc = IF quiz_state = EmptyDict \/ saved
                                      THEN "respond" ELSE "insert"]
    /\ UNCHANGED <<session, db, db_sid, sid, resp>>
    /\ FrameConc

\* INSERT INTO highscores and commit
ResultInsert(r) ==
    /\ cr[r].pc = "insert"
    /\ LET quiz_state == current_quiz(cr[r].sess)
           score == dict_get(quiz_state, "score", 0)
           total == Len(dict_get(quiz_state, "questions", <<>>))
           row == [name |-> dict_get(cr[r].sess, "player_name", PlayerDefault),
                   score |-> score, total |-> total,
                   percent |-> percent_of(score, total)]
       IN  /\ db' = Append(db, row)
           /\ db_sid' = Append(db_sid, sid)
    /\ cr' = [cr EXCEPT ![r].pc = "set"]
    /\ UNCHANGED <<session, sid, resp>>
    /\ FrameConc

\* session["score_saved"] = True
ResultSet(r) ==
    /\ cr[r].pc = "set"
    /\ cr' = [cr EXCEPT ![r].sess = dict_set(cr[r].sess, "score_saved", TRUE),
                        ![r].modified = TRUE,
                        ![r].pc = "respond"]
    /\ UNCHANGED <<session, db, db_sid, sid, resp>>
    /\ FrameConc

\* the response; a modified session is sent back as the new cookie
ResultRespond(r) ==
    /\ cr[r].pc = "respond"
    /\ session' = IF cr[r].modified THEN cr[r].sess ELSE session
    /\ resp' = result(cr[r].sess, db).resp
    /\ cr' = [cr EXCEPT ![r].pc = "done"]
    /\ UNCHANGED <<db, db_sid, sid>>
    /\ FrameConc

NextConc ==
    \/ ConcAnswer
    \/ \E r \in Requests : ResultOpen(r)
    \/ \E r \in Requests : ResultRead(r)
    \/ \E r \in Requests : ResultInsert(r)
    \/ \E r \in Requests : ResultSet(r)
    \/ \E r \in Requests : ResultRespond(r)

SpecConc == InitConc /\ [][NextConc]_vars

(***************************************************************************)
(* One session from its creation on, with no start and no reset: answers   *)
(* and views in any order, valid submissions counted in nvalid, and a      *)
(* valid submission eventually made whenever one stays possible            *)
(***************************************************************************)
InitLive ==
    /\ bank \in {BankOfSize(n) : n \in 1..MaxBank}
    /\ session \in BuiltSessions(bank)
    /\ db = <<>>
    /\ db_sid = <<>>
    /\ sid = 1
    /\ resp = NoResponse
    /\ OthersIdle
    /\ nvalid = 0

FrameLive == UNCHANGED <<bank, sq_pc, sq_in, sq_q, sq_out, ld, gr, cr>>

\* a submission whose choice is one of the four letters
LiveAnswerValid ==
    /\ nvalid < Len(current_quiz(session)["questions"]) + ExtraValid
    /\ \E form \in AnswerForms :
          /\ chosen_of(form) \in LetterSet
          /\ Effect(answer(session, db, form), FALSE)
    /\ nvalid' = nvalid + 1
    /\ FrameLive

LiveAnswerInvalid ==
    /\ \E form \in AnswerForms :
          /\ chosen_of(form) \notin LetterSet
          /\ Effect(answer(session, db, form), FALSE)
    /\ UNCHANGED nvalid
    /\ FrameLive

NextLive ==
    \/ LiveAnswerValid
    \/ LiveAnswerInvalid
    \/ Index
    \/ Quiz
    \/ Result
    \/ Highscores

SpecLive == InitLive /\ [][NextLive]_vars /\ WF_vars(LiveAnswerValid)

(***************************************************************************)
(* Properties                                                              *)
(***************************************************************************)
HasQuiz == current_quiz(session) # EmptyDict

Questions == session["quiz"]["questions"]
Idx == session["quiz"]["idx"]
Score == session["quiz"]["score"]
Answers == session["quiz"]["answers"]
ScoreSaved == dict_get(session, "score_saved", FALSE)

NonTerminal == HasQuiz /\ Idx < Len(Questions)
Terminal == HasQuiz /\ Idx >= Len(Questions)

CountCorrect(log) == Cardinality({i \in DOMAIN log : log[i].is_correct})

\* the rows of the table written for session k
RowsOf(k) == {i \in DOMAIN db_sid : db_sid[i] = k}

\* C1: in every reachable state with a quiz session, 0 <= idx <= len(questions),
\* score <= idx and len(answers) = idx
C1_SessionInvariant ==
    HasQuiz => /\ 0 <= Idx
               /\ Idx <= Len(Questions)
               /\ Score <= Idx
               /\ Len(Answers) = Idx

C1_Witness ==
    /\ HasQuiz
    /\ resp.op = "answer"
    /\ Idx = Len(Questions)
    /\ Idx >= 2
    /\ Score > 0
    /\ Score < Idx

\* C2: no session has more than one row in highscores, however often its
\* result is viewed between answers
C2_AtMostOneRow == \A i, j \in DOMAIN db_sid : db_sid[i] = db_sid[j] => i = j

\* a result view that found the session's row already written, with answers
\* submitted since
C2_Witness ==
    /\ HasQuiz
    /\ resp.op = "result"
    /\ resp.kind = "render"
    /\ \E i \in RowsOf(sid) : db[i].score # Score

\* C3: a row is inserted only for a session at terminal position
C3_InsertOnlyWhenTerminal ==
    [][Len(db') > Len(db) => (HasQuiz /\ Idx = Len(Questions))]_vars

\* C4: once a terminal session's result has been viewed, the table holds exactly
\* one row for it, with total = len(questions), score = the number of correct
\* log entries and percent = score / total * 100
C4_RowMatchesSession ==
    (Terminal /\ resp.op = "result" /\ resp.kind = "render") =>
        /\ Cardinality(RowsOf(sid)) = 1
        /\ \A i \in RowsOf(sid) :
              /\ db[i].total = Len(Questions)
              /\ db[i].score = CountCorrect(Answers)
              /\ db[i].percent[1] * db[i].total = 100 * db[i].score * db[i].percent[2]

InvalidChoice(form) == upper(strip(dict_get(form, "choice", <<>>))) \notin LetterSet

\* C5: an answer whose trimmed, upper-cased choice is not A, B, C or D leaves a
\* non-terminal session (questions, idx, score, answers, score_saved) unchanged
C5_InvalidChoiceNoChange ==
    NonTerminal =>
        \A form \in AnswerForms :
            InvalidChoice(form) =>
                LET r == answer(session, db, form)
                IN  /\ "quiz" \in DOMAIN r.session
                    /\ r.session["quiz"] = session["quiz"]
                    /\ dict_get(r.session, "score_saved", FALSE) = ScoreSaved
                    /\ ("score_saved" \in DOMAIN r.session) =
                           ("score_saved" \in DOMAIN session)
                    /\ r.resp.to = "quiz"

C5_Witness ==
    /\ NonTerminal
    /\ resp.op = "answer"
    /\ resp.flash = "error"
    /\ resp.to = "quiz"
    /\ Idx >= 1

LetterIndex(letter) ==
    CASE letter = <<"A">> -> 0
      [] letter = <<"B">> -> 1
      [] letter = <<"C">> -> 2
      [] letter = <<"D">> -> 3

\* C6: a valid letter submitted to a non-terminal session advances idx by one,
\* appends one record, adds one to score exactly when the letter's index is the
\* question's answer_index, and leaves the questions alone
C6_ValidAnswerStep ==
    NonTerminal =>
        \A form \in AnswerForms :
            ~InvalidChoice(form) =>
                LET r == answer(session, db, form).session["quiz"]
                    letter == upper(strip(form["choice"]))
                    hit == LetterIndex(letter) = Questions[Idx + 1]["answer_index"]
                IN  /\ r["idx"] = Idx + 1
                    /\ Len(r["answers"]) = Len(Answers) + 1
                    /\ SubSeq(r["answers"], 1, Len(Answers)) = Answers
                    /\ r["score"] = IF hit THEN Score + 1 ELSE Score
                    /\ r["questions"] = Questions

\* a correct and a wrong answer have both been recorded
C6_Witness ==
    /\ HasQuiz
    /\ resp.op = "answer"
    /\ resp.flash = "none"
    /\ resp.to = "quiz"
    /\ Idx = 2
    /\ Score = 1

\* C7: score is the number of log entries with is_correct, and a terminal
\* session has one log entry per question
C7_ScoreCountsCorrect ==
    HasQuiz => /\ Score = CountCorrect(Answers)
               /\ (Idx >= Len(Questions) => Len(Answers) = Len(Questions))

C7_Witness ==
    /\ Terminal
    /\ Len(Answers) >= 2
    /\ \E i, j \in DOMAIN Answers : Answers[i].is_correct /\ ~Answers[j].is_correct

Clamp(a, lo, hi) == IF a < lo THEN lo ELSE IF a > hi THEN hi ELSE a

\* C8: with a bank of n >= 1 questions, start with requested amount a builds
\* max(1, min(a, n)) questions, and reset builds that many from the remembered
\* amount
C8_SessionLength ==
    LET n == Len(bank.entries)
    IN  n >= 1 =>
          \A order \in Orders(n), perms \in [1..n -> ShufflePerms] :
              /\ \A form \in StartForms :
                    ("amount" \in DOMAIN form /\ int(form["amount"]).ok) =>
                        Len(start(session, db, bank, form, order, perms)
                                .session["quiz"]["questions"])
                            = Clamp(int(form["amount"]).val, 1, n)
              /\ "amount" \in DOMAIN session =>
                    Len(reset(session, db, bank, order, perms)
                            .session["quiz"]["questions"])
                        = Clamp(session["amount"], 1, n)

\* a start that asked for more than the bank holds
C8_Witness ==
    /\ HasQuiz
    /\ resp.op = "start"
    /\ resp.flash = "warning"
    /\ Len(bank.entries) >= 2
    /\ Len(Questions) = Len(bank.entries)

SeqToBag(seq) ==
    [t \in {seq[i] : i \in DOMAIN seq} |-> Cardinality({i \in DOMAIN seq : seq[i] = t})]

\* C9: shuffle_question returns a copy whose options are the original options
\* under a bijection of the positions, with the same multiset of texts and
\* answer_index at the text of the original correct option; the original
\* record is left as it was
C9_ShufflePreserves ==
    sq_pc = "done" =>
        /\ \E f \in Perms4 :
              \A i \in 1..NumOptions : sq_out["options"][i] = sq_in["options"][f[i] + 1]
        /\ SeqToBag(sq_out["options"]) = SeqToBag(sq_in["options"])
        /\ sq_out["answer_index"] \in 0..(NumOptions - 1)
        /\ sq_out["options"][sq_out["answer_index"] + 1]
               = sq_in["options"][sq_in["answer_index"] + 1]
        /\ sq_out["id"] = sq_in["id"]
        /\ sq_q = sq_in

\* the options moved, the correct index with them, and a text occurs twice
C9_Witness ==
    /\ sq_pc = "done"
    /\ sq_out["options"] # sq_in["options"]
    /\ sq_out["answer_index"] # sq_in["answer_index"]
    /\ \E i, j \in 1..NumOptions : i # j /\ sq_in["options"][i] = sq_in["options"][j]

\* C10: an answer with any choice, sent without a session or to a terminal
\* session, changes neither session nor table and is answered by a redirect,
\* to the start page without a session and to the result page when terminal
C10_AnswerOutsideSession ==
    \A form \in AnswerForms :
        LET r == answer(session, db, form)
        IN  /\ ~HasQuiz => /\ r.session = session
                           /\ r.db = db
                           /\ r.resp.kind = "redirect"
                           /\ r.resp.to = "index"
            /\ Terminal => /\ r.session = session
                           /\ r.db = db
                           /\ r.resp.kind = "redirect"
                           /\ r.resp.to = "result"

C10_Witness ==
    /\ Terminal
    /\ resp.op = "answer"
    /\ resp.kind = "redirect"
    /\ resp.to = "result"

\* an entry as the claim wants it: all five fields, options a list of four,
\* answer_index an integer (a bool is one for isinstance) from 0 to 3
EntryWellFormed(e) ==
    /\ e.t = "dict"
    /\ \A k \in {"id", "question", "options", "answer_index", "explanation"} :
           k \in DOMAIN e.d
    /\ e.d["options"].t = "list"
    /\ Len(e.d["options"].l) = 4
    /\ e.d["answer_index"].t \in {"int", "bool"}
    /\ e.d["answer_index"].n \in 0..3

\* C11: load_questions fails when any entry is malformed (or the file is
\* missing) and returns nothing then; otherwise it returns every entry, each
\* with 4 options and answer_index in 0..3; question_count is the bank size on
\* success and 0 on failure
C11_LoaderAllOrNothing ==
    ld.pc = "done" =>
        LET es == ld.file.entries
        IN  IF ld.file.exists /\ \A i \in DOMAIN es : EntryWellFormed(es[i])
            THEN /\ ld.out.ok
                 /\ Len(ld.out.data) = Len(es)
                 /\ \A i \in DOMAIN es :
                       /\ ld.out.data[i]["id"] = es[i].d["id"].n
                       /\ ld.out.data[i]["options"] = es[i].d["options"].l
                       /\ Len(ld.out.data[i]["options"]) = 4
                       /\ ld.out.data[i]["answer_index"] \in 0..3
                 /\ ld.count = Len(es)
            ELSE /\ ~ld.out.ok
                 /\ ld.out.data = <<>>
                 /\ ld.count = 0

\* a file whose first entry is well formed and whose second is not
C11_Witness ==
    /\ ld.pc = "done"
    /\ Len(ld.file.entries) = 2
    /\ EntryWellFormed(ld.file.entries[1])
    /\ ~EntryWellFormed(ld.file.entries[2])
    /\ ~ld.out.ok
    /\ ld.count = 0

Bands == <<"Iniciante", "Regular", "Bom", "Muito bom", "Excelente">>

BandLevel(title) == CHOOSE i \in 1..Len(Bands) : Bands[i] = title

\* the band whose interval of p = score / total holds: [0, 0.4), [0.4, 0.6),
\* [0.6, 0.8), [0.8, 1), {1}
InBand(i, score, total) ==
    CASE i = 5 -> score = total
      [] i = 4 -> 5 * score >= 4 * total /\ score < total
      [] i = 3 -> 5 * score >= 3 * total /\ 5 * score < 4 * total
      [] i = 2 -> 5 * score >= 2 * total /\ 5 * score < 3 * total
      [] i = 1 -> 5 * score < 2 * total

\* C12: grade_rank gives the unavailable band for total <= 0; for
\* 0 <= score <= total, total >= 1 it gives the one band whose interval holds
\* score / total, and the band of score + 1 is never below the band of score
C12_GradeBands ==
    gr.pc = "done" =>
        /\ gr.total <= 0 => gr.out = "Resultado indisponivel"
        /\ (gr.total >= 1 /\ gr.score <= gr.total) =>
              /\ gr.out \in {Bands[i] : i \in 1..Len(Bands)}
              /\ InBand(BandLevel(gr.out), gr.score, gr.total)
              /\ Cardinality({i \in 1..Len(Bands) : InBand(i, gr.score, gr.total)}) = 1
              /\ gr.score < gr.total =>
                    BandLevel(grade_rank(gr.score + 1, gr.total)) >= BandLevel(gr.out)
        /\ (gr.score = 10 /\ gr.total = 10) => gr.out = "Excelente"
        /\ (gr.score = 8 /\ gr.total = 10) => gr.out = "Muito bom"
        /\ (gr.score = 5 /\ gr.total = 10) => gr.out = "Regular"
        /\ (gr.score = 0 /\ gr.total = 0) => gr.out = "Resultado indisponivel"

\* 8 of 10: the lower end of a band
C12_Witness ==
    /\ gr.pc = "done"
    /\ gr.score = 8
    /\ gr.total = 10
    /\ gr.out = "Muito bom"

\* C13: a completed session has at most one row in highscores, also when two
\* result views of it are handled concurrently, their reads of score_saved,
\* inserts and writes of the flag interleaved
C13_ConcurrentAtMostOneRow == Terminal => Cardinality(RowsOf(sid)) <= 1

\* a step that built a session
Built == resp.op \in {"start", "reset"} /\ resp.to = "quiz"

\* C14: the session built by start or reset, from any earlier state, has
\* idx = 0, score = 0, an empty log and score_saved false; no row of the table
\* is its own and its result view inserts one
C14_BuiltSessionFresh ==
    Built =>
        /\ HasQuiz
        /\ Idx = 0
        /\ Score = 0
        /\ Answers = <<>>
        /\ "score_saved" \in DOMAIN session
        /\ session["score_saved"] = FALSE
        /\ RowsOf(sid) = {}
        /\ Len(result(session, db).db) = Len(db) + 1

\* a reset of a session whose row had been written
C14_Witness ==
    /\ Built
    /\ resp.op = "reset"
    /\ sid = 2
    /\ RowsOf(1) # {}
    /\ ScoreSaved = FALSE

BankData == load_questions(bank).data

\* C15: the questions of a session have pairwise distinct ids, each the id of
\* a question of the bank, whose text and option texts they carry
C15_DistinctBankQuestions ==
    HasQuiz =>
        /\ \A i, j \in DOMAIN Questions : Questions[i].id = Questions[j].id => i = j
        /\ \A i \in DOMAIN Questions :
              \E k \in DOMAIN BankData :
                  /\ BankData[k].id = Questions[i].id
                  /\ BankData[k].question = Questions[i].question
                  /\ SeqToBag(BankData[k].options) = SeqToBag(Questions[i].options)

\* two questions selected, in the reverse of the bank's order
C15_Witness ==
    /\ HasQuiz
    /\ Len(Questions) = 2
    /\ Questions[1].id > Questions[2].id

\* C16: a step of a request other than answer, start and reset (quiz view,
\* result view, highscores, index) leaves questions, idx, score and answers of
\* the session as they were
C16_OnlyAnswerMutates ==
    [][resp'.op \notin {"answer", "start", "reset"} =>
          current_quiz(session') = current_quiz(session)]_vars

\* a result view of a session in mid-course: it wrote score_saved and left
\* the quiz state alone
C16_Witness ==
    /\ NonTerminal
    /\ Idx >= 1
    /\ resp.op = "result"
    /\ resp.kind = "render"
    /\ ScoreSaved

IsPrefix(a, b) == Len(a) <= Len(b) /\ SubSeq(b, 1, Len(a)) = a

\* each question before idx has exactly one record
OneRecordEach ==
    HasQuiz =>
        /\ Len(Answers) = Idx
        /\ \A i \in 1..Idx :
              Cardinality({j \in DOMAIN Answers : Answers[j].id = Questions[i].id}) = 1

\* C17: between the creation of a session and the next start or reset every
\* step keeps the recorded answers as a prefix of the log, and each answered
\* question has exactly one record
C17_LogAppendOnly ==
    [][(HasQuiz /\ sid' = sid) =>
          /\ HasQuiz'
          /\ IsPrefix(Answers, Answers')
          /\ OneRecordEach']_vars

\* a second record appended after a first, different one
C17_Witness ==
    /\ HasQuiz
    /\ resp.op = "answer"
    /\ Len(Answers) = 2
    /\ Answers[1].chosen # Answers[2].chosen

\* C18: for every i < idx the i-th record has the id of the i-th question, its
\* correct letter is the letter of that question's answer_index, and
\* is_correct holds exactly when chosen is the correct letter
C18_RecordsMatchQuestions ==
    HasQuiz =>
        \A i \in 1..Idx :
            /\ i \in DOMAIN Answers
            /\ Answers[i].id = Questions[i].id
            /\ Answers[i].correct \in LetterSet
            /\ LetterIndex(Answers[i].correct) = Questions[i].answer_index
            /\ Answers[i].is_correct <=> (Answers[i].chosen = Answers[i].correct)

\* the second question answered correctly after the first answered wrongly
C18_Witness ==
    /\ HasQuiz
    /\ Idx = 2
    /\ ~Answers[1].is_correct
    /\ Answers[2].is_correct

\* C19: a session of length L is terminal exactly once L valid submissions
\* have been made, whatever invalid submissions and views come between; with
\* valid submissions made fairly and no start or reset it becomes terminal,
\* and a terminal session stays terminal
C19_TerminalAfterLValid ==
    /\ [](HasQuiz /\ Idx = min(nvalid, Len(Questions)))
    /\ <>Terminal
    /\ [][Terminal => Terminal']_vars

\* a valid submission made to a two-question session already terminal
C19_Witness ==
    /\ Terminal
    /\ Len(Questions) = 2
    /\ nvalid = Len(Questions) + 1
    /\ resp.op = "answer"
    /\ resp.to = "result"

====
